---- MODULE Spec2Model ----
(***************************************************************************)
(* Model of the chunking / indexing / query pipeline of src/main.py        *)
(* (class MedlinePlusVectorizer and the part of main() that drives it).    *)
(*                                                                         *)
(* Text is modelled at character level: a Python str is a sequence of      *)
(* one-character strings, so that re.split, re.sub, str.strip, slicing and *)
(* the id f-string are computed the way the code computes them.            *)
(* Python offsets are 0-based; the operators below take and return Python  *)
(* offsets and translate to the 1-based sequences of TLA+ internally.      *)
(***************************************************************************)
EXTENDS Integers, Sequences, FiniteSets, TLC

VARIABLES
    chunk_size,      \* self.chunk_size
    chunk_overlap,   \* self.chunk_overlap
    files,           \* the *.txt files of input_dir, in glob order: <<[name, content]>>
    combined_text,   \* process(): combined_text
    documents,       \* create_chunks(): documents (after documents[1:])
    i,               \* create_chunks(): loop variable of "for i in range(0, len(documents), 2)"
    filename,        \* create_chunks(): filename
    content,         \* create_chunks(): content
    start_idx,       \* create_chunks(): start_idx
    chunk_id,        \* create_chunks(): chunk_id
    chunks,          \* create_chunks(): chunks, then the argument of create_vector_db
    store,           \* the persistent ChromaDB store: [exists, ids]
    batch_i,         \* create_vector_db(): loop variable of "for i in range(0, len(chunks), batch_size)"
    attempted,       \* history: the batch offsets handed to collection.add, in call order
    outcome,         \* history: how each method ended: [chunking, writer, query, n_results, results]
    pc               \* position in main() / process() / create_chunks() / create_vector_db()

vars == <<chunk_size, chunk_overlap, files, combined_text, documents, i, filename,
          content, start_idx, chunk_id, chunks, store, batch_i, attempted, outcome, pc>>

-----------------------------------------------------------------------------
(* Bounds of the model *)

\* longest file content enumerated for a one-file directory
MaxLen == 4
\* largest chunk_size enumerated; chunk_overlap ranges over 0..MaxSize
MaxSize == 3
\* cap on the chunks appended in one run (the windowing loop of an invalid
\* configuration never ends)
MaxChunks == 6
\* longest chunk list handed directly to create_vector_db
MaxWriterChunks == 201

-----------------------------------------------------------------------------
(* Python string helpers *)

Min(a, b) == IF a < b THEN a ELSE b

Max(a, b) == IF a > b THEN a ELSE b

\* str.isspace() on one character
IsSpace(c) == c \in {" ", "\n", "\t", "\r"}

\* s[k] for a Python index k; "IndexError" when out of range
PyInRange(s, k) == k < Len(s) /\ k >= -Len(s)

PyIndex(s, k) == IF k >= 0 THEN s[k + 1] ELSE s[Len(s) + k + 1]

\* normalisation of one slice bound (CPython PySlice_AdjustIndices, step 1)
PyClamp(s, k) == IF k < 0 THEN Max(k + Len(s), 0) ELSE Min(k, Len(s))

\* s[a:b]
PySlice(s, a, b) == SubSeq(s, PyClamp(s, a) + 1, PyClamp(s, b))

\* str.strip(): drop leading and trailing whitespace
RECURSIVE LStrip(_)
LStrip(s) == IF s # <<>> /\ IsSpace(Head(s)) THEN LStrip(Tail(s)) ELSE s

RECURSIVE RStrip(_)
RStrip(s) == IF s # <<>> /\ IsSpace(s[Len(s)]) THEN RStrip(SubSeq(s, 1, Len(s) - 1)) ELSE s

Strip(s) == RStrip(LStrip(s))

\* str(n) for n >= 0
DigitChar(d) == <<"0", "1", "2", "3", "4", "5", "6", "7", "8", "9">>[d + 1]

RECURSIVE ToDigits(_)
ToDigits(n) == IF n < 10 THEN <<DigitChar(n)>> ELSE ToDigits(n \div 10) \o <<DigitChar(n % 10)>>

\* does pattern p occur in s at Python offset k
IsPrefixAt(p, s, k) ==
    /\ k >= 0
    /\ k + Len(p) <= Len(s)
    /\ s[k + 1] = p[1]
    /\ SubSeq(s, k + 1, k + Len(p)) = p

-----------------------------------------------------------------------------
(* The document markers and the two regular expressions *)

\* "--- START OF DOCUMENT: "
StartMark == <<"-", "-", "-", " ", "S", "T", "A", "R", "T", " ", "O", "F", " ",
               "D", "O", "C", "U", "M", "E", "N", "T", ":", " ">>

\* "--- END OF DOCUMENT: "
EndMark == <<"-", "-", "-", " ", "E", "N", "D", " ", "O", "F", " ",
             "D", "O", "C", "U", "M", "E", "N", "T", ":", " ">>

\* " ---"
CloseMark == <<" ", "-", "-", "-">>

NL == <<"\n">>

\* least element of a non-empty set of integers
SetMin(S) == CHOOSE x \in S : \A y \in S : x <= y

\* The lazy group (.+?) followed by " ---": from group start g, the least j > g
\* with " ---" at offset j, provided s[g:j] holds no line break ('.' does not
\* match "\n"); -1 when there is none.
LazyClose(s, g) ==
    LET cands == {j \in (g + 1)..Len(s) : IsPrefixAt(CloseMark, s, j)}
    IN  IF cands = {} THEN -1
        ELSE IF \E q \in (g + 1)..SetMin(cands) : s[q] = "\n" THEN -1
        ELSE SetMin(cands)

\* A match of  mark (.+?) " ---"  that starts exactly at offset k:
\* [found, gs, ge, end] with the group s[gs:ge] and the match s[k:end].
MatchAt(mark, s, k) ==
    IF ~IsPrefixAt(mark, s, k) THEN [found |-> FALSE, gs |-> 0, ge |-> 0, end |-> 0]
    ELSE LET g == k + Len(mark)
             j == LazyClose(s, g)
         IN  IF j = -1 THEN [found |-> FALSE, gs |-> 0, ge |-> 0, end |-> 0]
             ELSE [found |-> TRUE, gs |-> g, ge |-> j, end |-> j + Len(CloseMark)]

\* the leftmost match at or after offset k; found = FALSE when there is none
NextMatch(mark, s, k) ==
    LET cands == {p \in k..(Len(s) - 1) : MatchAt(mark, s, p).found}
    IN  IF cands = {} THEN [found |-> FALSE, start |-> 0, gs |-> 0, ge |-> 0, end |-> 0]
        ELSE LET m == MatchAt(mark, s, SetMin(cands))
             IN  [found |-> TRUE, start |-> SetMin(cands), gs |-> m.gs, ge |-> m.ge, end |-> m.end]

\* re.split(r'--- START OF DOCUMENT: (.+?) ---', s): the text between matches
\* and each match's group, leftmost matches first, matches not overlapping.
RECURSIVE ReSplitFrom(_, _)
ReSplitFrom(s, last) ==
    LET m == NextMatch(StartMark, s, last)
    IN  IF m.found
        THEN <<PySlice(s, last, m.start), PySlice(s, m.gs, m.ge)>> \o ReSplitFrom(s, m.end)
        ELSE <<PySlice(s, last, Len(s))>>

ReSplit(s) == ReSplitFrom(s, 0)

\* re.sub(r'--- END OF DOCUMENT: .+? ---', '', s)
RECURSIVE ReSubFrom(_, _)
ReSubFrom(s, last) ==
    LET m == NextMatch(EndMark, s, last)
    IN  IF m.found
        THEN PySlice(s, last, m.start) \o ReSubFrom(s, m.end)
        ELSE PySlice(s, last, Len(s))

ReSubEnd(s) == ReSubFrom(s, 0)

-----------------------------------------------------------------------------
(* Inputs *)

\* characters of file contents: a letter and a blank
Alphabet == {"a", " "}

Texts(n) == UNION {[1..k -> Alphabet] : k \in 0..n}

\* contents used in directories of two files
SmallTexts == {<<"a">>, <<"a", "a">>, <<"a", " ", "a">>}

\* os.path.basename of three distinct *.txt paths: "a.txt", "b.txt", " a.txt"
NameA == <<"a", ".", "t", "x", "t">>

NameB == <<"b", ".", "t", "x", "t">>

NameSpaceA == <<" ", "a", ".", "t", "x", "t">>

NamePairs == {<<NameA, NameB>>, <<NameA, NameSpaceA>>}

\* contents that hold a marker line of their own:
\* "a\n--- START OF DOCUMENT: b.txt ---\na" and "a\n--- END OF DOCUMENT: x ---\na"
MarkerTexts ==
    {<<"a">> \o NL \o StartMark \o NameB \o CloseMark \o NL \o <<"a">>,
     <<"a">> \o NL \o EndMark \o <<"x">> \o CloseMark \o NL \o <<"a">>}

\* what glob.glob(input_dir/*.txt) and open().read() deliver
Directories ==
    {<<>>}
    \cup {<<[name |-> NameA, content |-> t]>> : t \in Texts(MaxLen) \cup MarkerTexts}
    \cup {<<[name |-> np[1], content |-> t1], [name |-> np[2], content |-> t2]>> :
            np \in NamePairs, t1 \in SmallTexts, t2 \in SmallTexts}

\* uuid.uuid4().hex[:8]: two of the 16^8 values
Suffixes == {<<"0", "0", "0", "0", "0", "0", "0", "0">>,
             <<"0", "0", "0", "0", "0", "0", "0", "1">>}

\* values of n_results: main() passes int(s) for a digit string s, else 5;
\* a direct caller may pass any integer
QueryKs == {-1, 0, 1, 5}

batch_size == 100

-----------------------------------------------------------------------------
(* combine_files *)

RECURSIVE Combine(_)
Combine(fs) ==
    IF fs = <<>> THEN <<>>
    ELSE NL \o StartMark \o Head(fs).name \o CloseMark \o NL \o NL
         \o Head(fs).content
         \o NL \o EndMark \o Head(fs).name \o CloseMark \o NL \o NL
         \o Combine(Tail(fs))

-----------------------------------------------------------------------------
(* create_chunks: the pieces of one loop iteration *)

\* end_idx = min(start_idx + self.chunk_size, len(content))
WindowEndShort(start) == Min(start + chunk_size - 1, Len(content))

WindowEnd(start) == Min(start + chunk_size, Len(content))

\* f"{filename}_chunk_{chunk_id}_{uuid.uuid4().hex[:8]}"
MakeId(name, cid, suffix) ==
    name \o <<"_", "c", "h", "u", "n", "k", "_">> \o ToDigits(cid) \o <<"_">> \o suffix

\* chunk_id += 1
NextChunkIdStuck(cid) == cid

NextChunkId(cid) == cid + 1

\* start_idx += (self.chunk_size - self.chunk_overlap)
AdvanceOffByOne(start) == start + (chunk_size - chunk_overlap) - 1

Advance(start) == start + (chunk_size - chunk_overlap)

\* while start_idx < len(content) and content[start_idx].isspace(): start_idx += 1
\* [idx, error]: the offset the loop ends at, or the offset whose read raises IndexError
RECURSIVE SkipWhitespace(_, _)
SkipWhitespace(s, k) ==
    IF k >= Len(s) THEN [idx |-> k, error |-> FALSE]
    ELSE IF ~PyInRange(s, k) THEN [idx |-> k, error |-> TRUE]
    ELSE IF IsSpace(PyIndex(s, k)) THEN SkipWhitespace(s, k + 1)
    ELSE [idx |-> k, error |-> FALSE]

\* the dictionary appended to chunks; doc is a history field (the loop index i
\* of the document the chunk was cut from), not a key of the dictionary
ChunkDoc(suffix) ==
    [id       |-> MakeId(filename, chunk_id, suffix),
     text     |-> PySlice(content, start_idx, WindowEnd(start_idx)),
     metadata |-> [source     |-> filename,
                   chunk_id   |-> chunk_id,
                   start_char |-> start_idx,
                   end_char   |-> WindowEnd(start_idx)],
     doc      |-> i]

-----------------------------------------------------------------------------
(* State machine *)

NoOutcome == [chunking |-> "none", writer |-> "none", query |-> "none",
              n_results |-> 0, results |-> 0]

\* state shared by every entry point: nothing computed yet, no collection on disk
Fresh ==
    /\ combined_text = <<>>
    /\ documents = <<>>
    /\ i = 0
    /\ filename = <<>>
    /\ content = <<>>
    /\ start_idx = 0
    /\ chunk_id = 0
    /\ store = [exists |-> FALSE, ids |-> {}]
    /\ batch_i = 0
    /\ attempted = <<>>
    /\ outcome = NoOutcome

\* main(): a vectorizer is constructed from the operator's numbers and process() starts
Init ==
    /\ chunk_size \in 1..MaxSize
    /\ chunk_overlap \in 0..MaxSize
    /\ files \in Directories
    /\ chunks = <<>>
    /\ Fresh
    /\ pc = "combine"

\* process(): combined_text = self.combine_files()
CombineFiles ==
    /\ pc = "combine"
    /\ combined_text' = Combine(files)
    /\ pc' = "split"
    /\ UNCHANGED <<chunk_size, chunk_overlap, files, documents, i, filename, content,
                   start_idx, chunk_id, chunks, store, batch_i, attempted, outcome>>

\* create_chunks(): chunks = [], the re.split and documents[1:]
SplitDocuments ==
    /\ pc = "split"
    /\ documents' = Tail(ReSplit(combined_text))
    /\ chunks' = <<>>
    /\ i' = 0
    /\ pc' = "doc"
    /\ UNCHANGED <<chunk_size, chunk_overlap, files, combined_text, filename, content,
                   start_idx, chunk_id, store, batch_i, attempted, outcome>>

\* one pass of the for loop up to the while loop (len(documents) is even, so
\* i+1 < len(documents) whenever i < len(documents))
NextDocument ==
    /\ pc = "doc"
    /\ i + 1 < Len(documents)
    /\ filename' = Strip(documents[i + 1])
    /\ content' = Strip(ReSubEnd(documents[i + 2]))
    /\ start_idx' = 0
    /\ chunk_id' = 0
    /\ pc' = "window"
    /\ UNCHANGED <<chunk_size, chunk_overlap, files, combined_text, documents, i,
                   chunks, store, batch_i, attempted, outcome>>

\* one iteration of "while start_idx < len(content)"; an IndexError raised by
\* content[start_idx] leaves create_chunks and is caught in process()
EmitChunk ==
    /\ pc = "window"
    /\ start_idx < Len(content)
    /\ Len(chunks) < MaxChunks
    /\ \E suffix \in Suffixes :
         LET skip == SkipWhitespace(content, Advance(start_idx))
         IN  /\ chunks' = Append(chunks, ChunkDoc(suffix))
             /\ chunk_id' = NextChunkId(chunk_id)
             /\ start_idx' = skip.idx
             /\ pc' = IF skip.error THEN "after_process" ELSE "window"
             /\ outcome' = IF skip.error
                           THEN [outcome EXCEPT !.chunking = "IndexError"]
                           ELSE outcome
    /\ UNCHANGED <<chunk_size, chunk_overlap, files, combined_text, documents, i,
                   filename, content, store, batch_i, attempted>>

\* the while loop ends; the for loop moves to the next pair
EndDocument ==
    /\ pc = "window"
    /\ start_idx >= Len(content)
    /\ i' = i + 2
    /\ pc' = "doc"
    /\ UNCHANGED <<chunk_size, chunk_overlap, files, combined_text, documents, filename,
                   content, start_idx, chunk_id, chunks, store, batch_i, attempted, outcome>>

\* the for loop ends; create_chunks returns and process() calls create_vector_db
ReturnChunks ==
    /\ pc = "doc"
    /\ i >= Len(documents)
    /\ outcome' = [outcome EXCEPT !.chunking = "returned"]
    /\ pc' = "vdb"
    /\ UNCHANGED <<chunk_size, chunk_overlap, files, combined_text, documents, i, filename,
                   content, start_idx, chunk_id, chunks, store, batch_i, attempted>>

-----------------------------------------------------------------------------
(* create_vector_db *)

\* ids[i:end_idx] for the batch that starts at offset b
BatchIds(b) == {chunks[k].id : k \in (b + 1)..Min(b + batch_size, Len(chunks))}

\* get_or_create_collection inside the try: it returns the collection, or it
\* raises and the except clause ends create_vector_db
GetOrCreateCollection ==
    /\ pc = "vdb"
    /\ \E ok \in BOOLEAN :
         IF ok
         THEN /\ store' = [store EXCEPT !.exists = TRUE]
              /\ batch_i' = 0
              /\ pc' = "add"
              /\ outcome' = outcome
         ELSE /\ outcome' = [outcome EXCEPT !.writer = "error"]
              /\ pc' = "after_process"
              /\ UNCHANGED <<store, batch_i>>
    /\ UNCHANGED <<chunk_size, chunk_overlap, files, combined_text, documents, i, filename,
                   content, start_idx, chunk_id, chunks, attempted>>

\* one pass of the batch loop: collection.add returns, or it raises and the
\* one except clause around the whole loop ends create_vector_db
AddBatch ==
    /\ pc = "add"
    /\ batch_i < Len(chunks)
    /\ attempted' = Append(attempted, batch_i)
    /\ \E ok \in BOOLEAN :
         IF ok
         THEN /\ store' = [store EXCEPT !.ids = @ \cup BatchIds(batch_i)]
              /\ batch_i' = batch_i + batch_size
              /\ UNCHANGED <<pc, outcome>>
         ELSE /\ outcome' = [outcome EXCEPT !.writer = "error"]
              /\ pc' = "after_process"
              /\ UNCHANGED <<store, batch_i>>
    /\ UNCHANGED <<chunk_size, chunk_overlap, files, combined_text, documents, i, filename,
                   content, start_idx, chunk_id, chunks>>

\* the batch loop ends: "Successfully created vector database ..."
FinishWrite ==
    /\ pc = "add"
    /\ batch_i >= Len(chunks)
    /\ outcome' = [outcome EXCEPT !.writer = "ok"]
    /\ pc' = "after_process"
    /\ UNCHANGED <<chunk_size, chunk_overlap, files, combined_text, documents, i, filename,
                   content, start_idx, chunk_id, chunks, store, batch_i, attempted>>

-----------------------------------------------------------------------------
(* query_example *)

\* What the try block of query_example does for n_results = n when the store
\* is reachable (up) or not: get_collection raises for a collection that does
\* not exist, collection.query raises for n <= 0 and otherwise returns at most
\* n entries of the collection. Every exception ends in the except clause.
QueryResult(n, up) ==
    IF ~up THEN [query |-> "error_unreachable", results |-> 0]
    ELSE IF ~store.exists THEN [query |-> "error_not_found", results |-> 0]
    ELSE IF n <= 0 THEN [query |-> "error_n_results", results |-> 0]
    ELSE [query |-> "results", results |-> Min(n, Cardinality(store.ids))]

\* main(): the operator answers 'y' and query_example(query, n_results) runs
QueryExample ==
    /\ pc = "after_process"
    /\ \E n \in QueryKs, up \in BOOLEAN :
         outcome' = [outcome EXCEPT !.query = QueryResult(n, up).query,
                                    !.results = QueryResult(n, up).results,
                                    !.n_results = n]
    /\ pc' = "end"
    /\ UNCHANGED <<chunk_size, chunk_overlap, files, combined_text, documents, i, filename,
                   content, start_idx, chunk_id, chunks, store, batch_i, attempted>>

\* main(): the operator declines the test query
DeclineQuery ==
    /\ pc = "after_process"
    /\ pc' = "end"
    /\ UNCHANGED <<chunk_size, chunk_overlap, files, combined_text, documents, i, filename,
                   content, start_idx, chunk_id, chunks, store, batch_i, attempted, outcome>>

-----------------------------------------------------------------------------
(* Specifications *)

Next ==
    \/ CombineFiles
    \/ SplitDocuments
    \/ NextDocument
    \/ EmitChunk
    \/ EndDocument
    \/ ReturnChunks
    \/ GetOrCreateCollection
    \/ AddBatch
    \/ FinishWrite
    \/ QueryExample
    \/ DeclineQuery

Spec == Init /\ [][Next]_vars

\* the windowing loop is sequential code: an iteration that can run does run,
\* and a loop whose condition is false is left
FairSpec == Spec /\ WF_vars(EmitChunk) /\ WF_vars(EndDocument)

\* a chunk list as create_chunks builds it for one document of n one-letter windows
WriterChunks(n) ==
    [k \in 1..n |->
        [id       |-> MakeId(NameA, k - 1, CHOOSE x \in Suffixes : TRUE),
         text     |-> <<"a">>,
         metadata |-> [source |-> NameA, chunk_id |-> k - 1,
                       start_char |-> k - 1, end_char |-> k],
         doc      |-> 0]]

\* create_vector_db(chunks) called on a list of up to MaxWriterChunks chunks
WriterInit ==
    /\ chunk_size = 1
    /\ chunk_overlap = 0
    /\ files = <<>>
    /\ \E n \in 0..MaxWriterChunks : chunks = WriterChunks(n)
    /\ Fresh
    /\ pc = "vdb"

WriterNext ==
    \/ GetOrCreateCollection
    \/ AddBatch
    \/ FinishWrite

WriterSpec == WriterInit /\ [][WriterNext]_vars

-----------------------------------------------------------------------------
(* Observers used by the properties *)

\* the precondition of the chunking properties: chunk_size > 0 and
\* 0 <= chunk_overlap < chunk_size (the code itself never tests it)
ValidConfig == chunk_size > 0 /\ 0 <= chunk_overlap /\ chunk_overlap < chunk_size

\* the chunks cut from the document at loop index d, in emission order
ChunksOf(d) == SelectSeq(chunks, LAMBDA c : c.doc = d)

\* the while loop of the document at loop index i - 2 has just ended:
\* content is still that document's content
JustFinished == pc = "doc" /\ i > 0

\* the loop body is about to run
InWindowLoop == pc = "window" /\ start_idx < Len(content)

\* chunk k is followed by another chunk of the same document
HasSuccessor(k) == k < Len(chunks) /\ chunks[k + 1].doc = chunks[k].doc

\* the offsets range(0, len(chunks), batch_size) of the batch loop
BatchOffsets ==
    [k \in 1..((Len(chunks) + batch_size - 1) \div batch_size) |-> (k - 1) * batch_size]

-----------------------------------------------------------------------------
(* Properties *)

\* C1: with chunk_overlap >= chunk_size chunking is refused before it begins:
\* no chunk is ever appended and the windowing loop body is never entered.
C1_BadOverlapRejected ==
    chunk_overlap >= chunk_size => (chunks = <<>> /\ ~InWindowLoop)

\* C2: under a valid configuration every iteration of the windowing loop ends
\* with start_idx strictly greater than it began with, and the loop of every
\* document eventually ends with start_idx >= len(content).
C2_StartAdvancesAndLoopEnds ==
    /\ [][(ValidConfig /\ Len(chunks') = Len(chunks) + 1) => start_idx' > start_idx]_vars
    /\ (ValidConfig /\ pc = "window") ~> (pc = "doc" /\ start_idx >= Len(content))

\* C2 witness: a valid configuration with overlap, whose loop ran at least
\* twice on one document and then ended.
C2_Witness ==
    /\ ValidConfig
    /\ chunk_overlap > 0
    /\ JustFinished
    /\ chunk_id >= 2
    /\ start_idx >= Len(content)

\* C3: a non-empty document shorter than chunk_size yields exactly one chunk,
\* the whole text, from offset 0 to len(text).
C3_ShortDocumentOneChunk ==
    (ValidConfig /\ JustFinished /\ Len(content) > 0 /\ Len(content) < chunk_size)
        => /\ Len(ChunksOf(i - 2)) = 1
           /\ ChunksOf(i - 2)[1].text = content
           /\ ChunksOf(i - 2)[1].metadata.start_char = 0
           /\ ChunksOf(i - 2)[1].metadata.end_char = Len(content)

\* C4: two consecutive chunks of a document share at least chunk_overlap
\* characters when the later start was not moved by the whitespace skip, and
\* at most chunk_size - 1 characters always.
C4_OverlapBounds ==
    ValidConfig =>
        \A k \in 1..Len(chunks) :
            HasSuccessor(k) =>
                LET shared == chunks[k].metadata.end_char - chunks[k + 1].metadata.start_char
                IN  /\ shared <= chunk_size - 1
                    /\ chunks[k + 1].metadata.start_char = Advance(chunks[k].metadata.start_char)
                           => shared >= chunk_overlap

\* C5: under a valid configuration the chunks of a finished document cover
\* it: each chunk's text is content[start_char:end_char], and every offset of
\* the content lies in some chunk's range unless it holds whitespace that the
\* skip between two consecutive windows passed over.
C5_ChunksCoverDocument ==
    (ValidConfig /\ JustFinished) =>
        LET cs == ChunksOf(i - 2)
        IN  /\ \A k \in 1..Len(cs) :
                   cs[k].text = PySlice(content, cs[k].metadata.start_char, cs[k].metadata.end_char)
            /\ \A p \in 0..(Len(content) - 1) :
                   \/ \E k \in 1..Len(cs) :
                          cs[k].metadata.start_char <= p /\ p < cs[k].metadata.end_char
                   \/ /\ IsSpace(content[p + 1])
                      /\ \E k \in 1..(Len(cs) - 1) :
                             /\ Advance(cs[k].metadata.start_char) <= p
                             /\ p < cs[k + 1].metadata.start_char

\* C5 witness: a finished document of a valid configuration with at least two
\* chunks and an offset that no chunk holds.
C5_Witness ==
    /\ ValidConfig
    /\ JustFinished
    /\ Len(ChunksOf(i - 2)) >= 2
    /\ \E p \in 0..(Len(content) - 1) :
           \A k \in 1..Len(ChunksOf(i - 2)) :
               ~(ChunksOf(i - 2)[k].metadata.start_char <= p
                   /\ p < ChunksOf(i - 2)[k].metadata.end_char)

\* C6: end_char - start_char is the length of the chunk's text, and every
\* chunk that is not the last of its document has exactly chunk_size characters.
C6_OnlyFinalChunkShort ==
    ValidConfig =>
        \A k \in 1..Len(chunks) :
            /\ chunks[k].metadata.end_char - chunks[k].metadata.start_char = Len(chunks[k].text)
            /\ HasSuccessor(k) => Len(chunks[k].text) = chunk_size

\* C7: the chunk_id values of one document, in emission order, are 0, 1, 2, ...
\* with no gap and no repeat, and the count restarts at 0 with each document.
C7_ChunkIdsContiguous ==
    \A k \in 1..Len(chunks) :
        IF k > 1 /\ chunks[k - 1].doc = chunks[k].doc
        THEN chunks[k].metadata.chunk_id = chunks[k - 1].metadata.chunk_id + 1
        ELSE /\ chunks[k].metadata.chunk_id = 0
             /\ k > 1 => chunks[k - 1].doc < chunks[k].doc

\* C7 witness: create_chunks returned two documents of at least two chunks each.
C7_Witness ==
    /\ pc = "vdb"
    /\ outcome.chunking = "returned"
    /\ Len(ChunksOf(0)) >= 2
    /\ Len(ChunksOf(2)) >= 2

\* C8: in one run over files with distinct names no two chunks have the same
\* id, whatever suffixes are drawn.
C8_IdsUnique ==
    ValidConfig =>
        \A k1, k2 \in 1..Len(chunks) : k1 # k2 => chunks[k1].id # chunks[k2].id

\* C9: when a batch insertion fails the later batches are still submitted:
\* once create_vector_db has its collection and has ended, every batch offset
\* was handed to collection.add exactly once, in order.
C9_EveryBatchAttempted ==
    (pc = "after_process" /\ store.exists) => attempted = BatchOffsets

\* C10: a query for n_results > 0 against a reachable store whose collection
\* does not exist or is empty ends with an empty result list, not on the error path.
C10_MissingIndexZeroResults ==
    (/\ pc = "end"
     /\ outcome.query \notin {"none", "error_unreachable"}
     /\ outcome.n_results > 0
     /\ (~store.exists \/ store.ids = {}))
        => (outcome.query = "results" /\ outcome.results = 0)

\* C11: a query with n_results <= 0 is refused for its argument at once, before
\* the store is consulted: such a query never ends as a store failure, a
\* missing-collection failure or a result list.
C11_NonPositiveKRejectedFirst ==
    (pc = "end" /\ outcome.query # "none" /\ outcome.n_results <= 0)
        => outcome.query = "error_n_results"

\* C12: combine_files followed by the split of create_chunks is a round trip:
\* the split yields one (name, content) pair per file, each document that the
\* loop takes up has its file's name as source and its file's stripped content
\* as content, and every chunk's source is the name of an input file.
C12_CombineSplitRoundTrip ==
    pc \notin {"combine", "split"} =>
        /\ Len(documents) = 2 * Len(files)
        /\ pc = "window" =>
               /\ filename = files[(i \div 2) + 1].name
               /\ content = Strip(files[(i \div 2) + 1].content)
        /\ \A k \in 1..Len(chunks) :
               \E f \in 1..Len(files) : chunks[k].metadata.source = files[f].name

====
